---- MODULE Spec2Model ----
(***************************************************************************)
(* freighter: crate index synchronisation, parallel crate download with    *)
(* hash check, error journal and repair pass.                              *)
(*                                                                         *)
(* Spec      : the `crates download` command (Init / Fix / Increment) with *)
(*             its worker tasks, against an upstream that may answer any   *)
(*             GET with the right bytes, other bytes, a non-2xx status or  *)
(*             a transport error.                                          *)
(* SpecIndex : the `crates pull` command (clone / fetch+merge, commit      *)
(*             records) followed by Increment downloads.                   *)
(* SpecUpload: `crates download --init` and the component tasks of a       *)
(*             channel synchronisation, with --upload.                     *)
(* SpecChannel : one run of sync_rust_toolchain: for each channel the       *)
(*             sidecar, the manifest, its parse, the component tasks, the  *)
(*             join and the upload of the manifest.                        *)
(* SpecManifest, SpecRun, SpecClean, SpecServer: parse_channel_file, the   *)
(*             channels of a run, the retention passes and a GET below     *)
(*             /crates, each applied once to arguments drawn in Init.      *)
(***************************************************************************)
EXTENDS Integers, Sequences, FiniteSets, TLC

\* ------------------------------------------------------------------ bounds
\* a download command starts only while the journal holds at most MaxJournal
\* records, a pull only while today's record file holds fewer than MaxRecords
\* lines; the upstream index gets at most MaxCommit commits after its first,
\* and the clock runs over MaxDay days
MaxJournal == 2
MaxRecords == 2
MaxCommit == 2
MaxDay == 2
\* longest serve_domains list of the server
MaxDomains == 3

\* --------------------------------------------------------------- universe
CrateNames == {"ab", "serde"}
Versions == {"0.1.0", "0.2.0"}
\* the crate versions an index line can name
Keys == CrateNames \X Versions

NoFile == <<"absent">>
Junk == <<"junk">>
\* the bytes of the archive the registry published for a crate version
Archive(k) == <<"crate", k[1], k[2]>>
\* the toolchain components a channel manifest lists, and their files
Components == {"rustc", "cargo"}
Artifact(c) == <<"dist", c>>
\* ---------------------------------------------------------------- calendar
\* a date is <<year, month, day>> of the proleptic Gregorian calendar
IsLeap(y) == (y % 4 = 0 /\ y % 100 # 0) \/ y % 400 = 0
DaysInMonth(y, m) ==
    IF m = 2 THEN (IF IsLeap(y) THEN 29 ELSE 28)
    ELSE IF m \in {4, 6, 9, 11} THEN 30 ELSE 31
IsDate(d) ==
    /\ d[2] \in 1..12
    /\ d[3] \in 1..DaysInMonth(d[1], d[2])
RECURSIVE DaysBeforeMonth(_, _)
DaysBeforeMonth(y, m) ==
    IF m = 1 THEN 0 ELSE DaysBeforeMonth(y, m - 1) + DaysInMonth(y, m - 1)
\* NaiveDate::num_days_from_ce: 0001-01-01 is day 1
num_days_from_ce(d) ==
    365 * (d[1] - 1) + ((d[1] - 1) \div 4) - ((d[1] - 1) \div 100)
        + ((d[1] - 1) \div 400) + DaysBeforeMonth(d[1], d[2]) + d[3]
\* NaiveDate::succ_opt
succ(d) ==
    IF d[3] < DaysInMonth(d[1], d[2]) THEN <<d[1], d[2], d[3] + 1>>
    ELSE IF d[2] < 12 THEN <<d[1], d[2] + 1, 1>>
    ELSE <<d[1] + 1, 1, 1>>
\* start.iter_days().take(n)
RECURSIVE iter_days_take(_, _)
iter_days_take(start, n) ==
    IF n = 0 THEN <<>> ELSE <<start>> \o iter_days_take(succ(start), n - 1)

\* the name of a channel: <<"stable">>, <<"1.70.0">>, or <<tag, date>> for
\* format!("{tag}-{date}") with tag beta or nightly
Dated(tag, day) == <<tag, day>>
RunStart == <<2024, 2, 28>>
RunNow == <<2024, 3, 1>>
\* the channels the toolchain runs of the model can be asked for
Channels == {<<"stable">>, <<"beta">>, <<"nightly">>}
                \cup {Dated(tag, day) : tag \in {"beta", "nightly"},
                                        day \in {RunStart, succ(RunStart)}}
FileContents == {NoFile, Junk} \cup {Archive(k) : k \in Keys}
                    \cup {Artifact(c) : c \in Components}

\* hex SHA-256 of a byte string: an injective digest, distinct from the bytes
Sha256(bytes) == <<"sha256">> \o bytes

\* cksum field of the index line of a crate version
Cksum(k) == Sha256(Archive(k))

\* ------------------------------------------------------------ HTTP upstream
\* what one GET can end in: 2xx with a body, a non-2xx status, or an error
\* of send() (DNS, connect, timeout)
RespBody(bytes) == <<"body", bytes>>
RespStatus == <<"status">>
RespTransport == <<"transport">>
NoResp == <<"noget">>
\* the upstream is not trusted: it may serve the published bytes or others
Responses(k) == {RespBody(Archive(k)), RespBody(Junk), RespStatus, RespTransport}
HealthyResponses(k) == {RespBody(Archive(k))}
ComponentResponses(c) == {RespBody(Artifact(c)), RespBody(Junk), RespStatus, RespTransport}

\* ---------------------------------------------------------------- download
NoSum == <<"nosum">>

\* BlockingReqwest::download_to_folder: Err on a transport error, Ok(false)
\* on a non-2xx status, else the body replaces the file and Ok(true)
download_to_folder(file, resp) ==
    IF resp = RespTransport THEN [ret |-> "Err", file |-> file, get |-> resp]
    ELSE IF resp[1] = "body" THEN [ret |-> "OkTrue", file |-> resp[2], get |-> resp]
    ELSE [ret |-> "OkFalse", file |-> file, get |-> resp]

\* a download that does not look at the file it finds
download_and_check_hash_refetch(file, check_sum, is_override, resp) ==
    download_to_folder(file, resp)

\* a download that leaves a file of another hash where it is while it fetches
download_and_check_hash_keep(file, check_sum, is_override, resp) ==
    IF file # NoFile /\ check_sum # NoSum /\ Sha256(file) = check_sum
    THEN [ret |-> "OkFalse", file |-> file, get |-> NoResp]
    ELSE IF file # NoFile /\ check_sum = NoSum /\ ~is_override
    THEN [ret |-> "OkFalse", file |-> file, get |-> NoResp]
    ELSE download_to_folder(file, resp)

\* download_and_check_hash(opts, check_sum, is_override), resp being what the
\* upstream answers if a GET is issued
download_and_check_hash(file, check_sum, is_override, resp) ==
    IF file # NoFile
    THEN IF check_sum # NoSum
         THEN IF Sha256(file) = check_sum
              THEN [ret |-> "OkFalse", file |-> file, get |-> NoResp]
              ELSE download_to_folder(NoFile, resp)
         ELSE IF ~is_override
              THEN [ret |-> "OkFalse", file |-> file, get |-> NoResp]
              ELSE download_to_folder(file, resp)
    ELSE download_to_folder(file, resp)

\* ------------------------------------------------------------------- index
\* one tree of the index repository: the version lines of each crate's index
\* file (no line: the file does not exist) and the revision of config.json
EmptyTree == [lines |-> [n \in CrateNames |-> {}], cfg |-> 0]
\* the trees a cloned index starts with: one crate with two versions, or two
\* crates with one version each
TwoVersions == [lines |-> [n \in CrateNames |->
                             IF n = "ab" THEN {"0.1.0", "0.2.0"} ELSE {}],
                cfg |-> 1]
TwoCrates == [lines |-> [n \in CrateNames |-> {"0.1.0"}], cfg |-> 1]
InitTrees == {TwoVersions, TwoCrates}
NoRepo == -1
FIRST_COMMIT == 0
NoName == "-"

\* the error journal error-crates.log is a sequence of written chunks
JsonChunk(k) == <<"json", k[1], k[2]>>
NlChunk == <<"nl">>
NoTask == <<"notask">>

VARIABLES
    upstream,   \* commits of the upstream index, upstream[c + 1] the tree of commit c
    localHead,  \* commit of the local master branch, NoRepo before the clone
    worktree,   \* commit whose tree is checked out in the index directory
    records,    \* records[d]: lines <<from, to>> of the commit-record file of day d
    recFiles,   \* days whose commit-record file exists
    today,
    lastPull,   \* outcome of the last pull command
    disk,       \* disk[k]: bytes of crates/<name>/<name>-<vers>.crate, or NoFile
    journal,    \* chunks of error-crates.log
    lockHolder, \* task holding the journal mutex
    run,        \* the running `crates download` command
    pc,         \* pc[k]: position of the task of crate version k
    ret,        \* ret[k]: what download_and_check_hash returned to task k
    resp,       \* resp[k]: answer to the GET of task k, NoResp if none was issued
    gets,       \* gets[k]: GETs issued by task k
    upl,        \* upl[k]: outcome of the upload of task k
    rdpos,      \* chunks of the journal the repair pass has read
    visited,    \* crate names the repair pass has handled
    bodyPanic,  \* the closure given to scope() panicked
    result,     \* how the last download command ended
    disk0,      \* disk when the running command started
    jlen0,      \* length of the journal when the running command started
    upload,     \* --upload is given to the download commands
    delete_after_upload,    \* --delete-after-upload is given
    dist,       \* dist[c]: bytes of the file of toolchain component c, or NoFile
    chan,       \* position of sync_channel
    cpc,        \* cpc[c]: position of the pool task of component c
    cret,       \* cret[c]: what download_and_check_hash returned to that task
    cupl,       \* cupl[c]: outcome of the upload of that task
    arg,        \* arguments of the call of a function examined on its own
    out,        \* <<what that call returned>>, <<>> before the call
    sync,       \* how far sync_rust_toolchain is: "-", "running", "Ok", "panicked"
    queue,      \* channels sync_rust_toolchain has still to give to sync_channel
    toml,       \* toml[ch]: bytes of the local manifest of channel ch, or NoFile
    sha,        \* sha[ch]: bytes of its local .sha256 sidecar, or NoFile
    mget,       \* GETs issued by the running download_file_with_sha
    mret,       \* what download_file_with_sha returned to sync_channel
    mupl,       \* outcomes of the uploads of replace_toml_and_sha
    idx,        \* idx[name]: the index file of crate name in the served index
    reply,      \* what the server answered to the last POST /api/v1/crates/new
    published   \* the crate versions whose publish was answered with 200

repoVars == <<upstream, localHead, worktree, records, recFiles, today, lastPull>>
taskVars == <<pc, ret, resp, gets, upl>>
chanVars == <<dist, chan, cpc, cret, cupl>>
\* the options and the channel state: no step of a crates command changes them
srvVars == <<idx, reply, published>>
callVars == <<arg, out, srvVars>>
syncVars == <<sync, queue, toml, sha, mget, mret, mupl>>
optVars == <<upload, delete_after_upload, chanVars, callVars, syncVars>>
runVars == <<run, rdpos, visited, bodyPanic, result, disk0, jlen0, optVars>>
vars == <<upstream, localHead, worktree, records, recFiles, today, lastPull,
          disk, journal, lockHolder, run, pc, ret, resp, gets, upl, rdpos, visited,
          bodyPanic, result, disk0, jlen0, upload, delete_after_upload,
          dist, chan, cpc, cret, cupl, arg, out,
          sync, queue, toml, sha, mget, mret, mupl, idx, reply, published>>

Days == 1..MaxDay
Tree(c) == upstream[c + 1]
UpstreamHead == Len(upstream) - 1
\* the index tree in the local index directory
Index == IF worktree = NoRepo THEN EmptyTree ELSE Tree(worktree)
IdleRun == [mode |-> "Idle", phase |-> "idle", name |-> NoName]

\* the tasks parse_index_and_download spawns for the index file of crate n:
\* one per line; a missing index file spawns none
IndexLines(tree, n) == {<<n, v>> : v \in tree.lines[n]}

\* ------------------------------------------------------- download commands
NoRet == [k \in Keys |-> "-"]
NoGet == [k \in Keys |-> NoResp]
NoGets == [k \in Keys |-> 0]
NoUpl == [k \in Keys |-> "-"]

\* start of a command: the process is fresh, open_file_with_mutex has opened
\* (or created) the journal for appending
StartRun(mode, name, spawned, phase) ==
    /\ run.mode = "Idle"
    /\ chan = "idle"
    /\ Len(journal) <= 2 * MaxJournal
    /\ run' = [mode |-> mode, phase |-> phase, name |-> name]
    /\ pc' = [k \in Keys |-> IF k \in spawned THEN "ready" ELSE "none"]
    /\ ret' = NoRet /\ resp' = NoGet /\ gets' = NoGets /\ upl' = NoUpl
    /\ rdpos' = 0
    /\ visited' = {}
    /\ bodyPanic' = FALSE
    /\ disk0' = disk
    /\ jlen0' = Len(journal)
    /\ UNCHANGED <<repoVars, disk, journal, lockHolder, optVars>>

\* full_downloads: walk the index tree, every non-json file is parsed and one
\* task per line is spawned into the scope
full_downloads ==
    /\ result' = "-"
    /\ StartRun("Init", NoName, UNION {IndexLines(Index, n) : n \in CrateNames}, "join")

\* fix_download with a crate name: the tasks of that crate's index file
fix_download_name(name) ==
    /\ result' = "-"
    /\ StartRun("Fix", name, IndexLines(Index, name), "join")

\* fix_download without a crate name: the scope closure starts to read the
\* journal
fix_download ==
    /\ result' = "-"
    /\ StartRun("Fix", NoName, {}, "body")

\* the chunks of the next line the reader gets: up to and including the next
\* newline, or up to the end of what has been written so far
RECURSIVE LineEnd(_, _)
LineEnd(j, i) ==
    IF i > Len(j) THEN Len(j)
    ELSE IF j[i] = NlChunk THEN i
    ELSE LineEnd(j, i + 1)

\* an iteration that parses the index file of every record's crate, visited
\* or not
FixReadLineEveryRecord ==
    /\ run.mode = "Fix" /\ run.name = NoName /\ run.phase = "body"
    /\ rdpos < Len(journal)
    /\ LET e == LineEnd(journal, rdpos + 1)
           text == SelectSeq(SubSeq(journal, rdpos + 1, e), LAMBDA c : c # NlChunk)
       IN /\ rdpos' = e
          /\ IF Len(text) = 1
             THEN /\ visited' = visited \cup {text[1][2]}
                  /\ pc' = [k \in Keys |->
                              IF k \in IndexLines(Index, text[1][2]) THEN "ready" ELSE pc[k]]
                  /\ UNCHANGED <<bodyPanic, run>>
             ELSE /\ bodyPanic' = TRUE
                  /\ run' = [run EXCEPT !.phase = "join"]
                  /\ UNCHANGED <<visited, pc>>
    /\ UNCHANGED <<repoVars, disk, journal, lockHolder, ret, resp, gets, upl,
                   result, disk0, jlen0, optVars>>

\* one iteration of `for line in buffered.lines()` of fix_download
FixReadLine ==
    /\ run.mode = "Fix" /\ run.name = NoName /\ run.phase = "body"
    /\ rdpos < Len(journal)
    /\ LET e == LineEnd(journal, rdpos + 1)
           text == SelectSeq(SubSeq(journal, rdpos + 1, e), LAMBDA c : c # NlChunk)
       IN /\ rdpos' = e
          /\ IF Len(text) = 1
             THEN LET name == text[1][2]
                  IN IF name \notin visited
                     THEN /\ visited' = visited \cup {name}
                          /\ pc' = [k \in Keys |->
                                      IF k \in IndexLines(Index, name)
                                      THEN "ready" ELSE pc[k]]
                          /\ UNCHANGED <<bodyPanic, run>>
                     ELSE UNCHANGED <<visited, pc, bodyPanic, run>>
             \* serde_json::from_str(&line).unwrap() on a line that is not
             \* one JSON object
             ELSE /\ bodyPanic' = TRUE
                  /\ run' = [run EXCEPT !.phase = "join"]
                  /\ UNCHANGED <<visited, pc>>
    /\ UNCHANGED <<repoVars, disk, journal, lockHolder, ret, resp, gets, upl,
                   result, disk0, jlen0, optVars>>

\* lines() reaches the end of the journal: the closure returns
FixReadEof ==
    /\ run.mode = "Fix" /\ run.name = NoName /\ run.phase = "body"
    /\ rdpos = Len(journal)
    /\ run' = [run EXCEPT !.phase = "join"]
    /\ UNCHANGED <<repoVars, disk, journal, lockHolder, taskVars, rdpos, visited,
                   bodyPanic, result, disk0, jlen0, optVars>>

\* --------------------------------------------------------- index repository
\* the upstream index gets a commit: a version line is added to the index
\* file of a crate, an index file is removed, or config.json changes
UpstreamPush ==
    /\ run.mode = "Idle"
    /\ UpstreamHead < MaxCommit
    /\ LET t == Tree(UpstreamHead)
       IN \/ \E k \in Keys :
               /\ k[2] \notin t.lines[k[1]]
               \* versions are published in order
               /\ k[2] = "0.1.0" \/ "0.1.0" \in t.lines[k[1]]
               /\ upstream' = Append(upstream,
                                     [t EXCEPT !.lines[k[1]] = @ \cup {k[2]}])
          \/ \E n \in CrateNames :
               /\ t.lines[n] # {}
               /\ upstream' = Append(upstream, [t EXCEPT !.lines[n] = {}])
          \/ upstream' = Append(upstream, [t EXCEPT !.cfg = @ + 1])
    /\ UNCHANGED <<localHead, worktree, records, recFiles, today, lastPull,
                   disk, journal, lockHolder, taskVars, runVars>>

\* a record that is written whatever the two commits are
generate_commit_record_always(start_commit_id, end_commit_id) ==
    /\ recFiles' = recFiles \cup {today}
    /\ records' = [records EXCEPT
                     ![today] = Append(@, <<start_commit_id, end_commit_id>>)]

\* CrateIndex::generate_commit_record: today's record file is opened, or
\* created, and the line is written only if the two commits differ
generate_commit_record(start_commit_id, end_commit_id) ==
    /\ recFiles' = recFiles \cup {today}
    /\ records' = IF start_commit_id # end_commit_id
                  THEN [records EXCEPT
                          ![today] = Append(@, <<start_commit_id, end_commit_id>>)]
                  ELSE records

\* CrateIndex::git_clone: the clone fails, or HEAD is checked out and the
\* record from the first commit of the index to HEAD is written
git_clone ==
    \E cloned \in BOOLEAN :
        IF cloned
        THEN /\ localHead' = UpstreamHead
             /\ worktree' = UpstreamHead
             /\ generate_commit_record(FIRST_COMMIT, UpstreamHead)
             /\ lastPull' = "Ok"
        ELSE /\ lastPull' = "Panic"
             /\ UNCHANGED <<localHead, worktree, records, recFiles>>

\* do_merge: the merge analysis fails; or there is nothing to do, the fetched
\* commit being the local one; or fast_forward sets the branch to the fetched
\* commit and checks it out, which may fail after the branch has moved
MergeOutcomes == {"ok", "analysis", "checkout"}
do_merge(fetch_commit) ==
    \E outcome \in MergeOutcomes :
        /\ outcome = "checkout" => fetch_commit # localHead
        /\ localHead' = IF outcome = "analysis" THEN localHead ELSE fetch_commit
        /\ worktree' = IF outcome = "ok" /\ fetch_commit # localHead
                       THEN fetch_commit ELSE worktree
        /\ lastPull' = IF outcome = "ok" THEN "Ok" ELSE "Panic"

\* CrateIndex::git_pull: fetch, write the commit record, merge
git_pull ==
    \E fetched \in BOOLEAN :
        IF fetched
        THEN /\ generate_commit_record(localHead, UpstreamHead)
             /\ do_merge(UpstreamHead)
        ELSE /\ lastPull' = "Panic"
             /\ UNCHANGED <<localHead, worktree, records, recFiles>>

\* pull: clone when there is no local index, else git_pull
pull ==
    /\ run.mode = "Idle"
    /\ Len(records[today]) < MaxRecords
    /\ IF localHead = NoRepo THEN git_clone ELSE git_pull
    /\ UNCHANGED <<upstream, today, disk, journal, lockHolder, taskVars, runVars>>

\* midnight (UTC) of a day on which pull has run: the commit-record file of
\* the new day does not exist yet
DayRollover ==
    /\ run.mode = "Idle"
    /\ today < MaxDay
    /\ today \in recFiles
    /\ today' = today + 1
    /\ lastPull' = "-"
    /\ UNCHANGED <<upstream, localHead, worktree, records, recFiles,
                   disk, journal, lockHolder, taskVars, runVars>>

\* the paths a name-only diff of two trees prints
ConfigJson == "config.json"
DiffPaths(t1, t2) ==
    {n \in CrateNames : t1.lines[n] # t2.lines[n]}
        \cup (IF t1.cfg # t2.cfg THEN {ConfigJson} ELSE {})

\* handle_diff_line: config.json is skipped, any other path is opened in the
\* index directory and one task per line is handed to the pool; a path that
\* is not there hands over none
handle_diff_line(path) ==
    IF path = ConfigJson THEN {} ELSE IndexLines(Index, path)

\* a walk of every index file, changed or not
git2_diff_every_file(from_oid, to_oid) ==
    UNION {handle_diff_line(p) : p \in CrateNames}

\* git2_diff: the tasks of every line the diff of the two commits prints
git2_diff(from_oid, to_oid) ==
    UNION {handle_diff_line(p) : p \in DiffPaths(Tree(from_oid), Tree(to_oid))}

\* incremental_download: the last line of today's commit-record file names
\* the two commits to diff; without a record file of today it panics
incremental_download ==
    IF today \in recFiles
    THEN LET lines == records[today]
         IN /\ result' = "-"
            /\ StartRun("Increment", NoName,
                        IF lines # <<>>
                        THEN git2_diff(lines[Len(lines)][1], lines[Len(lines)][2])
                        ELSE {},
                        "join")
    ELSE /\ StartRun("Increment", NoName, {}, "finished")
         /\ result' = "Panic"

\* ------------------------------------------------------------------- tasks
\* a task that hands every file it did not fail on to the uploader,
\* downloaded in this run or found on disk
TaskDownloadWithUploadOfSkipped(k, answers) ==
    /\ pc[k] = "ready"
    /\ \E r \in answers :
         LET d == download_and_check_hash(disk[k], Cksum(k), FALSE, r)
         IN /\ disk' = [disk EXCEPT ![k] = d.file]
            /\ ret' = [ret EXCEPT ![k] = d.ret]
            /\ resp' = [resp EXCEPT ![k] = d.get]
            /\ gets' = [gets EXCEPT ![k] = IF d.get = NoResp THEN @ ELSE @ + 1]
            /\ pc' = [pc EXCEPT ![k] =
                        IF d.ret = "Err" THEN "lock"
                        ELSE IF d.file # NoFile /\ upload THEN "upload"
                        ELSE "done"]
    /\ UNCHANGED <<repoVars, journal, lockHolder, upl, runVars>>

\* download_crates_with_log, the call of download_and_check_hash
TaskDownloadWith(k, answers) ==
    /\ pc[k] = "ready"
    /\ \E r \in answers :
         LET d == download_and_check_hash(disk[k], Cksum(k), FALSE, r)
         IN /\ disk' = [disk EXCEPT ![k] = d.file]
            /\ ret' = [ret EXCEPT ![k] = d.ret]
            /\ resp' = [resp EXCEPT ![k] = d.get]
            /\ gets' = [gets EXCEPT ![k] = IF d.get = NoResp THEN @ ELSE @ + 1]
            /\ pc' = [pc EXCEPT ![k] =
                        IF d.ret = "Err" THEN "lock"
                        ELSE IF d.ret = "OkTrue" /\ upload THEN "upload"
                        ELSE "done"]
    /\ UNCHANGED <<repoVars, journal, lockHolder, upl, runVars>>

TaskDownload(k) == TaskDownloadWith(k, Responses(k))
\* the same step against an upstream that serves what the registry published
TaskDownloadHealthy(k) == TaskDownloadWith(k, HealthyResponses(k))

\* S3cmd::upload_file spawns s3cmd: it exits with 0, exits with another
\* code, or cannot be spawned (expect panics)
UploadOutcomes == {"ok", "failed", "nospawn"}

\* an upload step that removes the file without looking at the upload's result
TaskUploadThenDelete(k) ==
    /\ pc[k] = "upload"
    /\ \E o \in UploadOutcomes :
         /\ upl' = [upl EXCEPT ![k] = o]
         /\ disk' = [disk EXCEPT ![k] = IF delete_after_upload THEN NoFile ELSE @]
         /\ pc' = [pc EXCEPT ![k] = IF o = "nospawn" THEN "panicked" ELSE "done"]
    /\ UNCHANGED <<repoVars, journal, lockHolder, ret, resp, gets, runVars>>

\* download_crates_with_log, the Ok branch with download_succ && opts.upload
TaskUpload(k) ==
    /\ pc[k] = "upload"
    /\ \E o \in UploadOutcomes :
         /\ upl' = [upl EXCEPT ![k] = o]
         /\ disk' = [disk EXCEPT ![k] = IF o = "ok" /\ delete_after_upload THEN NoFile ELSE @]
         /\ pc' = [pc EXCEPT ![k] = IF o = "nospawn" THEN "panicked" ELSE "done"]
    /\ UNCHANGED <<repoVars, journal, lockHolder, ret, resp, gets, runVars>>

\* download_crates_with_log, the Err branch: err_record.lock()
TaskLock(k) ==
    /\ pc[k] = "lock"
    /\ lockHolder = NoTask
    /\ lockHolder' = k
    /\ pc' = [pc EXCEPT ![k] = "json"]
    /\ UNCHANGED <<repoVars, disk, journal, ret, resp, gets, upl, runVars>>

\* err_file.write_all(json.as_bytes())
TaskWriteJson(k) ==
    /\ pc[k] = "json"
    /\ journal' = Append(journal, JsonChunk(k))
    /\ pc' = [pc EXCEPT ![k] = "nl"]
    /\ UNCHANGED <<repoVars, disk, lockHolder, ret, resp, gets, upl, runVars>>

\* err_file.write_all(b"\n"), the guard is dropped and Err(err) returned; in
\* a scope the spawned closure unwraps it and panics, in the pool of
\* git2_diff the result is dropped
TaskWriteNl(k) ==
    /\ pc[k] = "nl"
    /\ journal' = Append(journal, NlChunk)
    /\ lockHolder' = NoTask
    /\ pc' = [pc EXCEPT ![k] = IF run.mode = "Increment" THEN "done" ELSE "panicked"]
    /\ UNCHANGED <<repoVars, disk, ret, resp, gets, upl, runVars>>

TasksOver == \A k \in Keys : pc[k] \in {"none", "done", "panicked"}

\* the tasks have terminated: scope() returns or resumes the panic of its
\* closure or of a task; pool.join() of git2_diff returns; fix_download
\* without a crate name then removes the journal
FinishRun ==
    /\ run.phase = "join"
    /\ TasksOver
    /\ LET panic == /\ run.mode # "Increment"
                    /\ (bodyPanic \/ \E k \in Keys : pc[k] = "panicked")
       IN /\ result' = IF panic THEN "Panic" ELSE "Ok"
          /\ journal' = IF run.mode = "Fix" /\ run.name = NoName /\ ~panic
                        THEN <<>> ELSE journal
    /\ run' = [run EXCEPT !.phase = "finished"]
    /\ UNCHANGED <<repoVars, disk, lockHolder, taskVars, rdpos, visited, bodyPanic,
                   disk0, jlen0, optVars>>

\* the process exits
Exit ==
    /\ run.phase = "finished"
    /\ run' = IdleRun
    /\ pc' = [k \in Keys |-> "none"]
    /\ ret' = NoRet /\ resp' = NoGet /\ gets' = NoGets /\ upl' = NoUpl
    /\ rdpos' = 0
    /\ visited' = {}
    /\ bodyPanic' = FALSE
    /\ disk0' = disk
    /\ jlen0' = Len(journal)
    /\ result' = "-"
    /\ UNCHANGED <<repoVars, disk, journal, lockHolder, optVars>>

\* ----------------------------------------------------------------- channel
\* what no step of sync_channel changes
crateVars == <<repoVars, disk, journal, lockHolder, taskVars, run, rdpos, visited,
               bodyPanic, result, disk0, jlen0, upload, delete_after_upload>>

\* sync_channel, once the manifest is there and parsed: one pool task per
\* (url, hash) of the download list
sync_channel ==
    /\ run.mode = "Idle"
    /\ chan = "idle"
    /\ chan' = "tasks"
    /\ cpc' = [c \in Components |-> "ready"]
    /\ cret' = [c \in Components |-> "-"]
    /\ cupl' = [c \in Components |-> "-"]
    /\ UNCHANGED <<crateVars, callVars, syncVars, dist>>

\* the pool task of a component, download_and_check_hash(..).unwrap(): an Err
\* panics in the task
ComponentDownload(c) ==
    /\ cpc[c] = "ready"
    /\ \E r \in ComponentResponses(c) :
         LET d == download_and_check_hash(dist[c], Sha256(Artifact(c)), FALSE, r)
         IN /\ dist' = [dist EXCEPT ![c] = d.file]
            /\ cret' = [cret EXCEPT ![c] = d.ret]
            /\ cpc' = [cpc EXCEPT ![c] =
                         IF d.ret = "Err" THEN "panicked"
                         ELSE IF d.ret = "OkTrue" /\ upload THEN "upload"
                         ELSE "done"]
    /\ UNCHANGED <<crateVars, callVars, syncVars, chan, cupl>>

\* the pool task of a component, `if downloaded && upload`
ComponentUpload(c) ==
    /\ cpc[c] = "upload"
    /\ \E o \in UploadOutcomes :
         /\ cupl' = [cupl EXCEPT ![c] = o]
         /\ dist' = [dist EXCEPT ![c] = IF o = "ok" /\ delete_after_upload THEN NoFile ELSE @]
         /\ cpc' = [cpc EXCEPT ![c] = IF o = "nospawn" THEN "panicked" ELSE "done"]
    /\ UNCHANGED <<crateVars, callVars, syncVars, chan, cret>>

\* a join that returns while tasks are still running
pool_join_early == TRUE

\* ThreadPool::join returns when no submitted task is queued or active; a
\* task that panicked is no longer active
pool_join == \A c \in Components : cpc[c] \in {"none", "done", "panicked"}

\* pool.join() returns, the panics of tasks stay in the pool
ChannelJoin ==
    /\ chan = "tasks"
    /\ pool_join
    /\ chan' = "idle"
    /\ cpc' = [c \in Components |-> "none"]
    /\ cret' = [c \in Components |-> "-"]
    /\ cupl' = [c \in Components |-> "-"]
    /\ UNCHANGED <<crateVars, callVars, syncVars, dist>>

\* no toolchain command has run: no manifest, no sidecar
NoSync ==
    /\ sync = "-"
    /\ queue = <<>>
    /\ toml = [ch \in Channels |-> NoFile]
    /\ sha = [ch \in Channels |-> NoFile]
    /\ mget = <<>>
    /\ mret = "-"
    /\ mupl = <<>>

\* the server has answered no publish request, and no index file is served
NoPublish ==
    /\ idx = [n \in CrateNames |-> <<"no file", <<>>>>]
    /\ reply = <<>>
    /\ published = {}

\* ------------------------------------------------------------ specification
\* no local index, no file, no command
FreshDisk ==
    /\ upstream = <<EmptyTree>>
    /\ localHead = NoRepo
    /\ worktree = NoRepo
    /\ records = [d \in Days |-> <<>>]
    /\ recFiles = {}
    /\ today = 1
    /\ lastPull = "-"
    /\ disk = [k \in Keys |-> NoFile]
    /\ journal = <<>>
    /\ lockHolder = NoTask
    /\ run = IdleRun
    /\ pc = [k \in Keys |-> "none"]
    /\ ret = NoRet /\ resp = NoGet /\ gets = NoGets /\ upl = NoUpl
    /\ rdpos = 0
    /\ visited = {}
    /\ bodyPanic = FALSE
    /\ result = "-"
    /\ disk0 = [k \in Keys |-> NoFile]
    /\ jlen0 = 0
    /\ dist = [c \in Components |-> NoFile]
    /\ chan = "idle"
    /\ cpc = [c \in Components |-> "none"]
    /\ cret = [c \in Components |-> "-"]
    /\ cupl = [c \in Components |-> "-"]

\* nothing has run yet, and no option is given
Fresh ==
    /\ FreshDisk
    /\ upload = FALSE
    /\ delete_after_upload = FALSE
    /\ NoSync
    /\ NoPublish

\* the index has been cloned at a commit that lists every crate version
Init ==
    /\ \E t \in InitTrees : upstream = <<EmptyTree, t>>
    /\ localHead = 1
    /\ worktree = 1
    /\ records = [d \in Days |-> IF d = 1 THEN <<<<FIRST_COMMIT, 1>>>> ELSE <<>>]
    /\ recFiles = {1}
    /\ today = 1
    /\ lastPull = "Ok"
    /\ disk = [k \in Keys |-> NoFile]
    /\ journal = <<>>
    /\ lockHolder = NoTask
    /\ run = IdleRun
    /\ pc = [k \in Keys |-> "none"]
    /\ ret = NoRet /\ resp = NoGet /\ gets = NoGets /\ upl = NoUpl
    /\ rdpos = 0
    /\ visited = {}
    /\ bodyPanic = FALSE
    /\ result = "-"
    /\ disk0 = [k \in Keys |-> NoFile]
    /\ jlen0 = 0
    /\ upload \in BOOLEAN
    /\ delete_after_upload \in BOOLEAN
    \* without --upload, --delete-after-upload is never read
    /\ delete_after_upload => upload
    /\ dist = [c \in Components |-> NoFile]
    /\ chan = "idle"
    /\ cpc = [c \in Components |-> "none"]
    /\ cret = [c \in Components |-> "-"]
    /\ cupl = [c \in Components |-> "-"]
    /\ NoSync
    /\ NoPublish
    /\ arg = <<>>
    /\ out = <<>>

Next ==
    \/ full_downloads
    \/ fix_download
    \/ \E n \in CrateNames : fix_download_name(n)
    \/ incremental_download
    \/ FixReadLine
    \/ FixReadEof
    \/ \E k \in Keys : TaskDownload(k)
    \/ \E k \in Keys : TaskUpload(k)
    \/ \E k \in Keys : TaskLock(k)
    \/ \E k \in Keys : TaskWriteJson(k)
    \/ \E k \in Keys : TaskWriteNl(k)
    \/ FinishRun
    \/ Exit

Spec == Init /\ [][Next]_vars

\* the threads of the pool and the thread that reads the journal keep running
SpecRepair ==
    /\ Spec
    /\ WF_vars(FixReadLine) /\ WF_vars(FixReadEof) /\ WF_vars(FinishRun)
    /\ \A k \in Keys : /\ WF_vars(TaskDownload(k)) /\ WF_vars(TaskUpload(k))
                        /\ WF_vars(TaskLock(k)) /\ WF_vars(TaskWriteJson(k))
                        /\ WF_vars(TaskWriteNl(k))

\* no local index yet, the upstream holds the first commit of the index;
\* pull and Increment download against a healthy upstream, without upload
InitIndex ==
    /\ Fresh
    /\ arg = <<>>
    /\ out = <<>>

\* crates download --init and channel synchronisation with --upload, with or
\* without --delete-after-upload
InitUpload ==
    /\ Init
    /\ upload

NextUpload ==
    \/ full_downloads
    \/ \E k \in Keys : TaskDownload(k)
    \/ \E k \in Keys : TaskUpload(k)
    \/ \E k \in Keys : TaskLock(k)
    \/ \E k \in Keys : TaskWriteJson(k)
    \/ \E k \in Keys : TaskWriteNl(k)
    \/ FinishRun
    \/ Exit
    \/ sync_channel
    \/ \E c \in Components : ComponentDownload(c)
    \/ \E c \in Components : ComponentUpload(c)
    \/ ChannelJoin

SpecUpload == InitUpload /\ [][NextUpload]_vars

NextIndex ==
    \/ UpstreamPush
    \/ pull
    \/ DayRollover
    \/ incremental_download
    \/ \E k \in Keys : TaskDownloadHealthy(k)
    \/ FinishRun
    \/ Exit

SpecIndex == InitIndex /\ [][NextIndex]_vars

TypeOK ==
    /\ \A k \in Keys : disk[k] \in FileContents
    /\ today \in Days
    /\ sync \in {"-", "running", "Ok", "panicked"}
    /\ \A i \in 1..Len(queue) : queue[i] \in Channels
    /\ mret \in {"-", "OkTrue", "OkFalse", "Err"}
    /\ Len(mget) <= 2 /\ Len(mupl) <= 2

\* ---------------------------------------------------------------- manifest
\* an Option<String> field of a manifest target: None, or Some of a string
None == <<>>
Some(s) == <<s>>
\* what the url and hash fields of a target can hold
UrlFields == {None, Some(""), Some("https://static.rust-lang.org/dist/rustc.tar.gz")}
XzUrlFields == {None, Some(""), Some("https://static.rust-lang.org/dist/rustc.tar.xz")}
HashFields == {None, Some(""), Some("9f2c")}
XzHashFields == {None, Some(""), Some("41d7")}
\* struct Target
Targets == [available : BOOLEAN, url : UrlFields, hash : HashFields,
            xz_url : XzUrlFields, xz_hash : XzHashFields]

\* parse_channel_file, the closure applied to one target: the tasks it pushes
TargetTasks(target) ==
    (IF target.xz_url # None /\ target.xz_hash # None
     THEN <<<<target.xz_url[1], target.xz_hash[1]>>>>
     ELSE <<>>)
    \o
    (IF target.url # None /\ target.hash # None
     THEN LET url == target.url[1]
              hash == target.hash[1]
          IN IF url # "" /\ hash # "" THEN <<<<url, hash>>>> ELSE <<>>
     ELSE <<>>)

\* parse_channel_file on a manifest, given as the sequence of the targets of
\* its packages: the download list
RECURSIVE parse_channel_file(_)
parse_channel_file(channel) ==
    IF channel = <<>> THEN <<>>
    ELSE TargetTasks(Head(channel)) \o parse_channel_file(Tail(channel))

\* a manifest of one package with one target has been fetched
InitManifest ==
    /\ Fresh
    /\ arg \in {<<target>> : target \in Targets}
    /\ out = <<>>

\* the call parse_channel_file(channel_toml)
ParseChannelFile ==
    /\ out = <<>>
    /\ out' = <<parse_channel_file(arg)>>
    /\ UNCHANGED <<crateVars, chanVars, syncVars, srvVars, arg>>

SpecManifest == InitManifest /\ [][ParseChannelFile]_vars

\* ---------------------------------------------------------------- toolchain
\* the url and the hex hash a manifest gives for the file of a component
ComponentUrl(c) ==
    IF c = "rustc" THEN "https://static.rust-lang.org/dist/rustc.tar.gz"
    ELSE "https://static.rust-lang.org/dist/cargo.tar.gz"
\* hex of Sha256(Artifact(c))
ComponentHash(c) == IF c = "rustc" THEN "9f2c" ELSE "c0de"
ComponentTarget(c) ==
    [available |-> TRUE, url |-> Some(ComponentUrl(c)), hash |-> Some(ComponentHash(c)),
     xz_url |-> None, xz_hash |-> None]
\* the targets of the manifest the upstream publishes for a channel
Published == <<ComponentTarget("rustc"), ComponentTarget("cargo")>>
\* bytes of a manifest that toml::from_str reads into a Channel
ManifestFile == <<"toml", Published>>
\* bytes that are not TOML of the manifest schema
BadToml == <<"not a manifest">>
\* bytes of a .sha256 sidecar: the hex hash, two spaces and the file name
ShaFile(bytes) == <<"sha file", Sha256(bytes)>>
\* bytes of a sidecar shorter than 64 characters
ShortFile == <<"short">>
TomlContents == {NoFile, ManifestFile, BadToml}
ShaContents == {NoFile, ShaFile(ManifestFile), ShaFile(BadToml), ShortFile}

\* what the upstream, which is not trusted, can answer for a sidecar and for
\* a manifest
SidecarResponses ==
    {RespBody(ShaFile(ManifestFile)), RespBody(ShaFile(BadToml)), RespBody(ShortFile),
     RespStatus, RespTransport}
ManifestResponses == {RespBody(ManifestFile), RespBody(BadToml), RespStatus, RespTransport}

\* &content[..64] of a sidecar of at least 64 characters
Prefix64(content) == content[2]

\* the options of a `channel download` run and the date it runs on
ToolchainOptions ==
    [version : {None, Some(<<"stable">>)}, sync_history : BOOLEAN, init : {FALSE},
     start : {None, Some(RunStart)}, now : {RunNow}]

\* config.sync_stable_versions
SyncStableVersions == <<>>

RECURSIVE HistoryChannels(_)
HistoryChannels(days) ==
    IF days = <<>> THEN <<>>
    ELSE <<Dated("beta", Head(days)), Dated("nightly", Head(days))>>
             \o HistoryChannels(Tail(days))

\* sync_rust_toolchain: the channels it gives to sync_channel, in this order
toolchain_channels(opts) ==
    IF opts.version # None THEN <<opts.version[1]>>
    ELSE IF opts.sync_history
    THEN IF opts.start # None /\ num_days_from_ce(opts.now) >= num_days_from_ce(opts.start[1])
         THEN HistoryChannels(iter_days_take(opts.start[1],
                 num_days_from_ce(opts.now) - num_days_from_ce(opts.start[1])))
         ELSE <<>>
    ELSE <<<<"stable">>, <<"beta">>, <<"nightly">>>>
             \o (IF opts.init THEN SyncStableVersions ELSE <<>>)

NoTasks ==
    /\ cpc' = [c \in Components |-> "none"]
    /\ cret' = [c \in Components |-> "-"]
    /\ cupl' = [c \in Components |-> "-"]

\* sync_rust_toolchain(opts) is entered
sync_rust_toolchain ==
    /\ sync = "-"
    /\ run.mode = "Idle"
    /\ chan = "idle"
    /\ sync' = "running"
    /\ queue' = toolchain_channels(arg[1])
    /\ UNCHANGED <<crateVars, chanVars, callVars, toml, sha, mget, mret, mupl>>

\* sync_channel(opts, channel) is entered for the next channel
SyncChannel ==
    /\ sync = "running"
    /\ chan = "idle"
    /\ queue # <<>>
    /\ chan' = "sha"
    /\ mget' = <<>> /\ mret' = "-" /\ mupl' = <<>>
    /\ NoTasks
    /\ UNCHANGED <<crateVars, callVars, dist, sync, queue, toml, sha>>

\* download_file_with_sha: the sidecar, download_and_check_hash(down_sha,
\* None, true).unwrap(), and &content[..64]
DownloadSidecar ==
    /\ chan = "sha"
    /\ \E r \in SidecarResponses :
         LET ch == Head(queue)
             d == download_and_check_hash(sha[ch], NoSum, TRUE, r)
             panics == d.ret = "Err" \/ (d.ret = "OkTrue" /\ d.file = ShortFile)
         IN /\ sha' = [sha EXCEPT ![ch] = d.file]
            /\ mget' = IF d.get = NoResp THEN mget ELSE Append(mget, <<"sha256", d.get>>)
            /\ sync' = IF panics THEN "panicked" ELSE sync
            /\ chan' = IF panics THEN "idle"
                       ELSE IF d.ret = "OkTrue" THEN "toml" ELSE "returned"
            /\ mret' = IF ~panics /\ d.ret = "OkFalse" THEN "OkFalse" ELSE mret
    /\ UNCHANGED <<crateVars, callVars, dist, cpc, cret, cupl, queue, toml, mupl>>

\* download_file_with_sha: the file itself, download_and_check_hash(down_file,
\* Some(sha256), false), whose result is returned
DownloadManifest ==
    /\ chan = "toml"
    /\ \E r \in ManifestResponses :
         LET ch == Head(queue)
             d == download_and_check_hash(toml[ch], Prefix64(sha[ch]), FALSE, r)
         IN /\ toml' = [toml EXCEPT ![ch] = d.file]
            /\ mget' = IF d.get = NoResp THEN mget
                       ELSE Append(mget, <<"toml", d.get, Prefix64(sha[ch])>>)
            /\ mret' = d.ret
            /\ chan' = "returned"
    /\ UNCHANGED <<crateVars, callVars, dist, cpc, cret, cupl, sync, queue, sha, mupl>>

\* sync_channel: the Err arm, and `!res && !channel_toml.exists()`
SkipChannel ==
    /\ chan = "returned"
    /\ mret = "Err" \/ (mret = "OkFalse" /\ toml[Head(queue)] = NoFile)
    /\ chan' = "idle"
    /\ queue' = Tail(queue)
    /\ UNCHANGED <<crateVars, callVars, dist, cpc, cret, cupl, sync, toml, sha,
                   mget, mret, mupl>>

\* sync_channel: parse_channel_file(channel_toml).unwrap() and one
\* pool.execute for each (url, hash) of the download list
SubmitTasks ==
    /\ chan = "returned"
    /\ ~(mret = "Err" \/ (mret = "OkFalse" /\ toml[Head(queue)] = NoFile))
    /\ IF toml[Head(queue)] = BadToml
       THEN /\ sync' = "panicked"
            /\ chan' = "idle"
            /\ UNCHANGED cpc
       ELSE LET download_list == parse_channel_file(toml[Head(queue)][2])
            IN /\ cpc' = [c \in Components |->
                            IF \E i \in 1..Len(download_list) :
                                  download_list[i] = <<ComponentUrl(c), ComponentHash(c)>>
                            THEN "ready" ELSE "none"]
               /\ chan' = "tasks"
               /\ UNCHANGED sync
    /\ UNCHANGED <<crateVars, callVars, dist, cret, cupl, queue, toml, sha,
                   mget, mret, mupl>>

\* sync_channel: pool.join() has returned
PoolJoin ==
    /\ chan = "tasks"
    /\ sync = "running"
    /\ pool_join
    /\ chan' = "joined"
    /\ UNCHANGED <<crateVars, callVars, dist, cpc, cret, cupl, syncVars>>

\* replace_toml_and_sha: the manifest, then its sidecar, upload_file(..)
\* .unwrap(); sync_channel returns after it
replace_toml_and_sha ==
    /\ chan = "joined"
    /\ IF ~upload
       THEN /\ chan' = "idle"
            /\ queue' = Tail(queue)
            /\ UNCHANGED <<sync, mupl>>
       ELSE \E o \in UploadOutcomes :
              /\ mupl' = Append(mupl, o)
              /\ sync' = IF o = "ok" THEN sync ELSE "panicked"
              /\ chan' = IF o = "ok" /\ Len(mupl) = 0 THEN chan ELSE "idle"
              /\ queue' = IF o = "ok" /\ Len(mupl) = 1 THEN Tail(queue) ELSE queue
    /\ UNCHANGED <<crateVars, callVars, dist, cpc, cret, cupl, toml, sha, mget, mret>>

\* sync_rust_toolchain returns Ok(())
SyncReturn ==
    /\ sync = "running"
    /\ chan = "idle"
    /\ queue = <<>>
    /\ sync' = "Ok"
    /\ UNCHANGED <<crateVars, chanVars, callVars, queue, toml, sha, mget, mret, mupl>>

\* a mirror that an earlier run has filled, or an empty one
MirroredToml ==
    \/ /\ toml = [ch \in Channels |-> NoFile]
       /\ sha = [ch \in Channels |-> NoFile]
       /\ dist = [c \in Components |-> NoFile]
    \/ /\ toml = [ch \in Channels |-> ManifestFile]
       /\ sha = [ch \in Channels |-> ShaFile(ManifestFile)]
       /\ dist \in [Components -> {NoFile} \cup {Artifact(c) : c \in Components}]
       /\ \A c \in Components : dist[c] \in {NoFile, Artifact(c)}

InitChannel ==
    /\ FreshDisk
    /\ upload \in BOOLEAN
    /\ delete_after_upload \in BOOLEAN
    /\ delete_after_upload => upload
    /\ sync = "-" /\ queue = <<>> /\ mget = <<>> /\ mret = "-" /\ mupl = <<>>
    /\ MirroredToml
    /\ NoPublish
    /\ arg \in {<<opts>> : opts \in ToolchainOptions}
    /\ out = <<>>

NextChannel ==
    \/ sync_rust_toolchain
    \/ SyncChannel
    \/ DownloadSidecar
    \/ DownloadManifest
    \/ SkipChannel
    \/ SubmitTasks
    \/ \E c \in Components : ComponentDownload(c)
    \/ \E c \in Components : ComponentUpload(c)
    \/ PoolJoin
    \/ replace_toml_and_sha
    \/ SyncReturn

SpecChannel == InitChannel /\ [][NextChannel]_vars

\* ------------------------------------------------------------ history runs
\* the dates a run is tried with: around the end of a year and of a February
RunDates ==
    {<<2023, 12, 30>>, <<2023, 12, 31>>, <<2024, 1, 1>>, <<2024, 2, 28>>,
     <<2024, 2, 29>>, <<2024, 3, 1>>, <<2024, 3, 2>>}
RunOptions ==
    [version : {None, Some(<<"stable">>)}, sync_history : BOOLEAN, init : BOOLEAN,
     start : {None} \cup {Some(d) : d \in RunDates}, now : RunDates]

InitRun ==
    /\ Fresh
    /\ arg \in {<<opts>> : opts \in RunOptions}
    /\ out = <<>>

\* the calls of sync_channel that sync_rust_toolchain(opts) makes when none
\* of them fails
ToolchainChannels ==
    /\ out = <<>>
    /\ out' = <<toolchain_channels(arg[1])>>
    /\ UNCHANGED <<crateVars, chanVars, syncVars, srvVars, arg>>

SpecRun == InitRun /\ [][ToolchainChannels]_vars

\* ---------------------------------------------------------------- retention
\* a name is the sequence of its parts between '-' and '.': the directory
\* 2024-01-01 is <<2024, 1, 1>>, the file channel-rust-nightly.toml is
\* <<"channel", "rust", "nightly", "toml">>
DistFileNames ==
    {<<"channel", "rust", "nightly", "toml">>, <<"rust", "nightly", "x86_64", "tar", "xz">>,
     <<"channel", "rust", "beta", "toml">>, <<"rust", "1.70.0", "x86_64", "tar", "xz">>}
\* str::contains(channel) for a channel tag, which is one part of a name
contains(file_name, channel) == \E i \in 1..Len(file_name) : file_name[i] = channel

\* an entry directly below dist: nothing, a plain file, or a directory of files
NoEntry == <<"none">>
PlainFile == <<"file">>
Dir(files) == <<"dir", files>>
is_dir(entry) == entry[1] = "dir"
FilesOf(entry) == IF is_dir(entry) THEN entry[2] ELSE {}

DatedNames == {<<2024, 1, 1>>, <<2024, 2, 1>>, <<2024, 2, 30>>}
RootFileNames == {<<"channel", "rust", "nightly", "toml">>}
\* the trees below dist a clean pass is tried on
DistTrees ==
    {t \in [DatedNames \cup RootFileNames ->
               {NoEntry, PlainFile} \cup {Dir(fs) : fs \in SUBSET DistFileNames}] :
        /\ \A n \in DatedNames : t[n] # PlainFile
        /\ \A n \in RootFileNames : ~is_dir(t[n])}
\* sync_beta_days, sync_nightly_days
SyncDays == {28, 29, 30, 59, 60}

\* NaiveDate::parse_from_str(name, "%Y-%m-%d") is Ok
ParsesAsDate(name) == Len(name) = 3 /\ IsDate(name)

\* a compare_date that also takes the directories that are sync_days old
compare_date_from(name, entry, sync_days, now) ==
    /\ is_dir(entry)
    /\ ParsesAsDate(name)
    /\ num_days_from_ce(now) - num_days_from_ce(name) >= sync_days

compare_date(name, entry, sync_days, now) ==
    /\ is_dir(entry)
    /\ ParsesAsDate(name)
    /\ num_days_from_ce(now) - num_days_from_ce(name) > sync_days

\* a pass that removes an old directory with whatever the pass left in it
clean_historical_version_rmdir(tree, channel, sync_days, now) ==
    [name \in DOMAIN tree |->
        IF tree[name] # NoEntry /\ compare_date(name, tree[name], sync_days, now)
        THEN NoEntry
        ELSE tree[name]]

\* clean_historical_version(dist_path, (channel, sync_days)) on the tree
\* below dist_path: the tree it leaves
clean_historical_version(tree, channel, sync_days, now) ==
    [name \in DOMAIN tree |->
        IF tree[name] # NoEntry /\ compare_date(name, tree[name], sync_days, now)
        THEN LET kept == {f \in FilesOf(tree[name]) : ~contains(f, channel)}
             IN IF kept = {} THEN NoEntry ELSE Dir(kept)
        ELSE tree[name]]

InitClean ==
    /\ Fresh
    /\ arg \in {<<tree, beta_days, nightly_days, RunNow>> :
                   tree \in DistTrees, beta_days \in SyncDays, nightly_days \in SyncDays}
    /\ out = <<>>

\* sync_rust_toolchain, `if opts.clean`: the pass for beta, then the pass for
\* nightly; out keeps the tree after each
CleanPasses ==
    /\ out = <<>>
    /\ LET after_beta == clean_historical_version(arg[1], "beta", arg[2], arg[4])
       IN out' = <<after_beta, clean_historical_version(after_beta, "nightly", arg[3], arg[4])>>
    /\ UNCHANGED <<crateVars, chanVars, syncVars, srvVars, arg>>

SpecClean == InitClean /\ [][CleanPasses]_vars

\* ------------------------------------------------------------------- server
\* a crate name and a version are the sequences of their parts between '-':
\* serde-json is <<"serde", "json">>, 1.0.0-rc-1 is <<"1.0.0", "rc", "1">>
ServedNames == {<<"ab">>, <<"serde">>, <<"serde", "json">>}
ServedVersions == {<<"0.1.0">>, <<"1.0.0", "alpha">>, <<"1.0.0", "rc", "1">>}
\* format!("{}-{}.crate", name, version): the parts of the file name, the
\* last of them followed by .crate
CrateFile(name, version) == [parts |-> name \o version, ext |-> ".crate"]
\* PathBuf::from("crates").join(&name).join(file)
CratePath(name, file) == <<"crates", name, file>>

\* GET /crates/<name>/<version>/download and GET /crates/<name>/<file>
Requests ==
    [route : {"crates_1"}, name : ServedNames, version : ServedVersions]
        \cup [route : {"crates_2"}, name : ServedNames,
              file : {CrateFile(n, v) : n \in ServedNames, v \in ServedVersions}]

\* filters::crates: the (name, version) a request is mapped to; crates_2
\* takes the last part of file.split('-') and removes ".crate" from it
crates_route(req) ==
    IF req.route = "crates_1" THEN <<req.name, req.version>>
    ELSE <<req.name, <<req.file.parts[Len(req.file.parts)]>>>>

\* filters::crates: file_path
crates_file_path(req) ==
    CratePath(crates_route(req)[1], CrateFile(crates_route(req)[1], crates_route(req)[2]))

Domains == {"localhost", "https://mirror-a.example", "https://mirror-b.example"}
\* the lists crates.serve_domains can hold
ServeDomainLists == UNION {[1..n -> Domains] : n \in 0..MaxDomains}

Ok200(path) == <<200, path>>
Found302(domain, path) == <<302, domain, path>>
NotFound404 == <<404>>

\* handlers::return_files followed by handle_rejection; held[domain] is the
\* set of paths of the files that origin holds. For a myhuaweicloud.com
\* domain the file name in the redirect is percent-encoded, which names the
\* same file
RECURSIVE return_files(_, _, _)
return_files(serve_domains, file_path, held) ==
    IF serve_domains = <<>> THEN NotFound404
    ELSE IF Head(serve_domains) = "localhost"
    THEN IF file_path \in held["localhost"] THEN Ok200(file_path)
         ELSE return_files(Tail(serve_domains), file_path, held)
    ELSE Found302(Head(serve_domains), file_path)

\* the files the origins hold: for each origin, some of the crate files of
\* one crate
HeldFiles ==
    {[d \in Domains |-> IF d \in ds THEN {CratePath(n, CrateFile(n, v))} ELSE {}] :
        ds \in SUBSET Domains, n \in {<<"serde", "json">>}, v \in ServedVersions}

InitServer ==
    /\ Fresh
    /\ arg \in {<<req, serve_domains, held>> :
                   req \in {r \in Requests : r.name = <<"serde", "json">>},
                   serve_domains \in ServeDomainLists, held \in HeldFiles}
    /\ out = <<>>

\* one GET below /crates is answered
ServeCrate ==
    /\ out = <<>>
    /\ out' = <<[file_path |-> crates_file_path(arg[1]),
                 reply |-> return_files(arg[2], crates_file_path(arg[1]), arg[3])]>>
    /\ UNCHANGED <<crateVars, chanVars, syncVars, srvVars, arg>>

SpecServer == InitServer /\ [][ServeCrate]_vars

\* ------------------------------------------------------------------ publish
\* an index file is a sequence of chunks: the JSON of one IndexFile value, or
\* a newline
IndexLine(name, vers, cksum) == <<"index line", name, vers, cksum>>
\* an index path: its directory does not exist, the file does not exist, or
\* the file holds chunks
NoIndexDir == <<"no directory", <<>>>>
NoIndexFile == <<"no file", <<>>>>
IndexFileOf(chunks) == <<"file", chunks>>
\* the index file of a crate as a clone of the upstream index holds it
ClonedIndexFile(name) ==
    IndexFileOf(<<IndexLine(name, "0.1.0", Cksum(<<name, "0.1.0">>)), NlChunk>>)

\* the crate bytes a client can post for a crate version
PostedBytes(k) == {Archive(k), Junk}
\* the bodies of POST /api/v1/crates/new: json_ok says whether the JSON part
\* deserializes into CratesPublish
PublishBodies ==
    UNION {{[json_ok |-> ok, key |-> k, content |-> b] :
               ok \in BOOLEAN, b \in PostedBytes(k)} : k \in Keys}

\* a save_crate_index that writes the line without a checksum
save_crate_index_nosum(json, content, file) ==
    IndexFileOf(<<IndexLine(json[1], json[2], NoSum)>>)

\* utils::save_crate_index: fs::write of the one line made from the request,
\* with the hex SHA-256 of the posted bytes as cksum
save_crate_index(json, content, file) ==
    IndexFileOf(<<IndexLine(json[1], json[2], Sha256(content))>>)

\* the replies: 200 with PublishRsp, 200 with Errors, or none when the
\* handler panicked
PublishReply(kind, body) == [kind |-> kind, body |-> body]

\* filters::publish
publish ==
    \E body \in PublishBodies :
        LET name == body.key[1]
        IN /\ IF ~body.json_ok
              THEN /\ reply' = <<PublishReply("200 errors", body)>>
                   /\ UNCHANGED <<idx, disk, published>>
              ELSE IF idx[name] = NoIndexDir
              THEN /\ reply' = <<PublishReply("panic", body)>>
                   /\ UNCHANGED <<idx, disk, published>>
              ELSE /\ idx' = [idx EXCEPT ![name] =
                                 save_crate_index(body.key, body.content, idx[name])]
                   /\ disk' = [disk EXCEPT ![body.key] = body.content]
                   /\ reply' = <<PublishReply("200", body)>>
                   /\ published' = published \cup {body.key}
           /\ UNCHANGED <<repoVars, journal, lockHolder, taskVars, run, rdpos, visited,
                          bodyPanic, result, disk0, jlen0, upload, delete_after_upload,
                          chanVars, syncVars, arg, out>>

\* the served index is a clone of the upstream index, which holds a crate, or
\* not, or lacks the directory of its index file
InitPublish ==
    /\ FreshDisk
    /\ upload = FALSE
    /\ delete_after_upload = FALSE
    /\ NoSync
    /\ idx \in [CrateNames -> {NoIndexDir, NoIndexFile}] \cup
                  {[n \in CrateNames |-> ClonedIndexFile(n)]}
    /\ reply = <<>>
    /\ published = {}
    /\ arg = <<>>
    /\ out = <<>>

SpecPublish == InitPublish /\ [][publish]_vars

\* ------------------------------------------------------------------ paths
\* A crate name is a sequence of characters, a path a sequence of components,
\* a component a sequence of characters.
MaxNameLen == 5

NameChars == {"a", "b"}

NamesOfLen(n) == [1..n -> NameChars]

PathNames == UNION {NamesOfLen(n) : n \in 1..MaxNameLen}

PathVersions == {<<"0", ".", "1">>, <<"1", ".", "0">>}

\* format!("{}", len)
LenDigits(n) == <<CASE n = 1 -> "1" [] n = 2 -> "2" [] n = 3 -> "3" [] n = 4 -> "4"
                    [] n = 5 -> "5" [] n = 6 -> "6" [] OTHER -> "n">>

\* &name[a..b] with 0-based half-open bounds
Slice(name, a, b) == SubSeq(name, a + 1, b)

index_suffix_len3_flat(name) ==
    IF Len(name) \in 1..3 THEN <<LenDigits(Len(name)), name>>
    ELSE <<Slice(name, 0, 2), Slice(name, 2, 4), name>>

index_suffix(name) ==
    IF Len(name) \in 1..2 THEN <<LenDigits(Len(name)), name>>
    ELSE IF Len(name) = 3 THEN <<LenDigits(Len(name)), Slice(name, 0, 1), name>>
    ELSE <<Slice(name, 0, 2), Slice(name, 2, 4), name>>

WorkDir == <<<<"work_dir">>>>

\* config.work_dir of the server joined with "crates.io-index"
ServerIndexRoot == WorkDir \o <<<<"crates.io-index">>>>

\* CrateIndex::new(index_domain, work_dir).path
CrateIndexPath == WorkDir \o <<<<"crates.io-index">>>>

\* CratesOptions.crates_path
CratesPathRoot == WorkDir \o <<<<"crates">>>>

\* utils::save_crate_index: crates_index_path.join(index_suffix(&json.name))
publish_index_path(name) == ServerIndexRoot \o index_suffix(name)

\* CratesOptions::get_index_path
get_index_path(name) == CrateIndexPath \o index_suffix(name)

\* parse_index_and_download: crates_path.join(name).join("{name}-{vers}.crate")
task_file(name, vers) == CratesPathRoot \o <<name, name \o <<"-">> \o vers \o <<".", "crate">>>>

InitPaths ==
    /\ Fresh
    /\ arg \in {<<name, vers>> : name \in PathNames, vers \in PathVersions}
    /\ out = <<>>

\* a name is resolved by the publish handler, by the repair pass and by the
\* download of one of its index entries
ResolvePaths ==
    /\ out = <<>>
    /\ out' = <<[suffix |-> index_suffix(arg[1]),
                 publish |-> publish_index_path(arg[1]),
                 repair |-> get_index_path(arg[1]),
                 file |-> task_file(arg[1], arg[2])]>>
    /\ UNCHANGED <<crateVars, chanVars, syncVars, srvVars, arg>>

SpecPaths == InitPaths /\ [][ResolvePaths]_vars

\* ------------------------------------------------------------------ url
\* A URL is a host and a path; a host and a path segment are sequences of
\* chunks of characters, so that contains and starts_with are tests on chunks.
MaxSegments == 3

\* Url::domain(): None for an IP address
UrlHosts ==
    {[ip |-> FALSE, name |-> <<"rust-proxy.obs.cn-east-3.", "myhuaweicloud.com">>],
     [ip |-> FALSE, name |-> <<"myhuaweicloud.com", ".mirror.example">>],
     [ip |-> FALSE, name |-> <<"static.crates.io">>],
     [ip |-> TRUE, name |-> <<"127.0.0.1">>]}

UrlSegments ==
    {<<"crates">>, <<"crates", "-mirror">>, <<"dist">>, <<"serde">>,
     <<"serde", "-", "1.0.0", "+", "2014", ".crate">>, <<"a", "%", "2B", "+", "+">>}

Urls == [host : UrlHosts, path : UNION {[1..n -> UrlSegments] : n \in 0..MaxSegments}]

\* form_urlencoded::byte_serialize on one chunk: letters, digits and * - . _
\* stay, every other byte becomes %XX
byte_serialize_chunk(c) == CASE c = "+" -> "%2B" [] c = "%" -> "%25" [] OTHER -> c

byte_serialize(segment) == [i \in 1..Len(segment) |-> byte_serialize_chunk(segment[i])]

\* url.path().starts_with("/crates")
path_starts_with_crates(path) == Len(path) > 0 /\ path[1][1] = "crates"

\* path.pop(); path.push(encode_path)
pop_push(path, last) == SubSeq(path, 1, Len(path) - 1) \o <<last>>

encode_huaweicloud_url_any_path(url) ==
    IF ~url.host.ip /\ contains(url.host.name, "myhuaweicloud.com") /\ Len(url.path) > 0
    THEN [url EXCEPT !.path = pop_push(url.path, byte_serialize(url.path[Len(url.path)]))]
    ELSE url

encode_huaweicloud_url(url) ==
    IF ~url.host.ip /\ contains(url.host.name, "myhuaweicloud.com")
       /\ path_starts_with_crates(url.path)
    THEN [url EXCEPT !.path = pop_push(url.path, byte_serialize(url.path[Len(url.path)]))]
    ELSE url

InitUrl ==
    /\ Fresh
    /\ arg \in {<<url>> : url \in Urls}
    /\ out = <<>>

EncodeUrl ==
    /\ out = <<>>
    /\ out' = <<encode_huaweicloud_url(arg[1])>>
    /\ UNCHANGED <<crateVars, chanVars, syncVars, srvVars, arg>>

SpecUrl == InitUrl /\ [][EncodeUrl]_vars

\* ------------------------------------------------------------------ process
\* One run of the binary: the subcommand clap matched and what its exec
\* function does (returns Ok, returns a FreighterError, or panics).
BuiltinCommands == {"crates", "rustup", "channel", "server"}

OtherCommands == {"sync", "index", "publish"}

RetOk == <<"ok">>
RetPanic == <<"panic">>
FreighterError(error, code) == <<"err", error, code>>

\* anyhow errors converted by `?` carry code 101, s3cmd and HTTP failures
\* carry the status in `code` and no error
ExecReturns ==
    {RetOk, RetPanic}
        \cup {FreighterError(e, c) : e \in {None, Some("io"), Some("http")}, c \in {1, 2, 101, 404}}

unknown_command(cmd) == FreighterError(Some("Unknown command"), 1)

builtin_exec(cmd) == IF cmd \in BuiltinCommands THEN Some(cmd) ELSE None

execute_subcommand(cmd, returned) == IF builtin_exec(cmd) # None THEN returned ELSE unknown_command(cmd)

\* the subcommands registered with clap
builtin == {"crates", "rustup", "channel", "server"}

\* main: the exit code of the process. cli::main leaves through clap's
\* Error::exit (usage error, code 2) when the subcommand is not registered;
\* FreighterError::print unwraps `error`
main(cmd, returned) ==
    LET res == execute_subcommand(cmd, returned)
    IN IF cmd \notin builtin THEN 2
       ELSE IF res = RetPanic THEN 101
       ELSE IF res = RetOk THEN 0
       ELSE IF res[2] = None THEN 101
       ELSE 0

InitMain ==
    /\ Fresh
    /\ arg \in {<<cmd, returned>> : cmd \in BuiltinCommands, returned \in ExecReturns}
                  \cup {<<cmd, RetOk>> : cmd \in OtherCommands}
    /\ out = <<>>

Main ==
    /\ out = <<>>
    /\ out' = <<main(arg[1], arg[2])>>
    /\ UNCHANGED <<crateVars, chanVars, syncVars, srvVars, arg>>

SpecMain == InitMain /\ [][Main]_vars

\* ------------------------------------------------------------------ index directory
\* What pull finds at index.path: nothing, or a directory holding entries.
\* An entry name is a sequence of chunks, "git" being one chunk.
EntryNames ==
    {<<".", "git">>, <<".", "git", "hub">>, <<".", "DS_Store">>, <<"config.json">>,
     <<"git", "-backup">>, <<"se">>, <<"3">>}

NoIndexAt == <<"absent", {}>>
IndexDirOf(entries) == <<"dir", entries>>

IndexDirs == {NoIndexAt} \cup {IndexDirOf(es) : es \in SUBSET EntryNames}

\* index_dir.exists()
exists(index_dir) == index_dir[1] = "dir"

\* the branch pull takes
pull_branch(index_dir) ==
    IF exists(index_dir)
    THEN IF ~(\E e \in index_dir[2] : ~contains(e, "git"))
         THEN "remove_dir_all, git_clone"
         ELSE "git_pull"
    ELSE "git_clone"

InitPullBranch ==
    /\ Fresh
    /\ arg \in {<<d>> : d \in IndexDirs}
    /\ out = <<>>

PullBranch ==
    /\ out = <<>>
    /\ out' = <<pull_branch(arg[1])>>
    /\ UNCHANGED <<crateVars, chanVars, syncVars, srvVars, arg>>

SpecPullBranch == InitPullBranch /\ [][PullBranch]_vars

\* ------------------------------------------------------------------ claims
\* C1: whenever download_and_check_hash is called with an expected hash and
\* reports Downloaded (Ok(true)), the file then on disk has that SHA-256,
\* whatever bytes the upstream served.  Stated for the crate tasks, between
\* the return of the download and the upload.
C1_DownloadedHasExpectedHash ==
    \A k \in Keys :
        (ret[k] = "OkTrue" /\ upl[k] = "-") => Sha256(disk[k]) = Cksum(k)

\* what the running command has appended to the journal so far
Appended == SubSeq(journal, jlen0 + 1, Len(journal))
\* the whole records (one JSON object, then the newline) of crate version k
\* among them
RecordsOf(k) ==
    Cardinality({i \in 1..(Len(Appended) - 1) :
                    Appended[i] = JsonChunk(k) /\ Appended[i + 1] = NlChunk})
\* the GET of task k ended in a non-2xx status or in a transport error
GetFailed(k) == resp[k] \in {RespStatus, RespTransport}
TaskOver(k) == pc[k] \in {"done", "panicked"}

\* C2: for every crate download task whose GET ends in a non-2xx status or
\* in a transport error, exactly one record of that crate version has been
\* appended to the error journal when the task is over.
C2_FailedGetIsJournaled ==
    \A k \in Keys :
        (run.phase \in {"body", "join"} /\ TaskOver(k) /\ GetFailed(k))
            => RecordsOf(k) = 1

\* C3: a failing crate download task never propagates out of the pool: when
\* an Init or Repair command is over and neither the journal reader nor an
\* upload panicked, full_downloads / fix_download have returned normally.
C3_FailureStaysInPool ==
    (/\ run.mode \in {"Init", "Fix"}
     /\ run.phase = "finished"
     /\ ~bodyPanic
     /\ \A k \in Keys : upl[k] # "nospawn")
        => result = "Ok"

\* C4: under any interleaving of failing tasks the journal is a concatenation
\* of whole records, exactly one per failed task: once the tasks of a
\* command are over, what it appended is JSON object and newline in turn,
\* and holds exactly one record for each task whose GET failed and none for
\* the others.
C4_OneWholeRecordPerFailedTask ==
    (run.phase = "join" /\ TasksOver) =>
        /\ Len(Appended) % 2 = 0
        /\ \A i \in 1..Len(Appended) :
              (i % 2 = 1) <=> (Appended[i] # NlChunk)
        /\ \A k \in Keys :
              RecordsOf(k) = IF TaskOver(k) /\ GetFailed(k) THEN 1 ELSE 0

\* C5: a repair pass without crate name truncates the journal exactly when
\* it succeeded as a whole: after a pass in which a re-submitted crate
\* version could not be downloaded, the journal still holds a record of that
\* crate; after a pass in which every one was downloaded or skipped, it is
\* empty.
C5_JournalKeepsFailures ==
    (run.mode = "Fix" /\ run.name = NoName /\ run.phase = "finished") =>
        /\ (\A k \in Keys : ~GetFailed(k)) /\ ~bodyPanic
               /\ (\A k \in Keys : ret[k] \in {"-", "OkTrue", "OkFalse"})
               /\ (\A k \in Keys : upl[k] # "nospawn")
             => journal = <<>>
        /\ \A k \in Keys :
              GetFailed(k) =>
                \E i \in 1..Len(journal) :
                    journal[i][1] = "json" /\ journal[i][2] = k[1]

\* every crate version the index lists had its archive on disk, with the
\* SHA-256 of its cksum, when the running command started
AllPresent ==
    \A n \in CrateNames : \A k \in IndexLines(Index, n) : Sha256(disk0[k]) = Cksum(k)

C7_Step(k) ==
    (pc[k] = "ready" /\ pc'[k] # "ready") =>
        /\ gets[k] = 0
        /\ (disk[k] # NoFile /\ Sha256(disk[k]) # Cksum(k)) =>
              /\ gets'[k] = 1
              /\ resp'[k] = RespBody(Archive(k)) => Sha256(disk'[k]) = Cksum(k)
              /\ resp'[k][1] # "body" => disk'[k] = NoFile
        /\ (disk[k] # NoFile /\ Sha256(disk[k]) = Cksum(k)) =>
              /\ gets'[k] = 0
              /\ disk'[k] = disk[k]

\* C7: a file on disk with a SHA-256 other than the expected one is removed
\* and exactly one GET is issued for it in the run; when the upstream
\* serves the published bytes the file has the expected SHA-256 afterwards,
\* and when it serves no body the file is gone.  A file with the expected
\* SHA-256 is not fetched and not written.
C7_MismatchIsRefetchedOnce ==
    [][\A k \in Keys : C7_Step(k) /\ gets'[k] <= 1]_vars

\* a file of another hash was found, one GET got the published bytes
C7_Witness ==
    \E k \in Keys :
        /\ disk0[k] = Junk
        /\ pc[k] = "done" /\ gets[k] = 1
        /\ resp[k] = RespBody(Archive(k))
        /\ disk[k] = Archive(k)

\* C8: for a task whose download returned Downloaded with upload enabled, the
\* local file is deleted if and only if the upload succeeded and
\* delete_after_upload is set, for crate tasks and for channel component
\* tasks.
C8_DeletedIffUploaded ==
    /\ \A k \in Keys :
          (upload /\ ret[k] = "OkTrue" /\ TaskOver(k)) =>
              ((disk[k] = NoFile) <=> (upl[k] = "ok" /\ delete_after_upload))
    /\ \A c \in Components :
          (upload /\ cret[c] = "OkTrue" /\ cpc[c] \in {"done", "panicked"}) =>
              ((dist[c] = NoFile) <=> (cupl[c] = "ok" /\ delete_after_upload))

\* with --delete-after-upload one component was uploaded and removed, the
\* upload of the other failed and its file is there
C8_Witness ==
    /\ delete_after_upload
    /\ cret["rustc"] = "OkTrue" /\ cupl["rustc"] = "ok" /\ dist["rustc"] = NoFile
    /\ cret["cargo"] = "OkTrue" /\ cupl["cargo"] = "failed"
    /\ dist["cargo"] # NoFile

\* the last line of today's commit-record file
LastRecord == records[today][Len(records[today])]
\* the crates whose index files differ between the commits from and to
ChangedCrates(from, to) ==
    {n \in CrateNames : Tree(from).lines[n] # Tree(to).lines[n]}
\* the crate versions the running command has submitted tasks for
Submitted == {k \in Keys : pc[k] # "none"}

C10_NoEmptyRecord ==
    \A d \in Days : \A i \in 1..Len(records[d]) : records[d][i][1] # records[d][i][2]

\* a pull that fetched nothing new has run: the record file of the day is
\* there, without a line
C10_Witness ==
    /\ localHead # NoRepo /\ lastPull = "Ok"
    /\ today \in recFiles
    /\ records[today] = <<>>

\* C11: git_pull appends the commit record only after the fetched commit has
\* been merged into the local tree: a pull that ends in an error leaves the
\* commit-record files as they were.
C11_RecordOnlyAfterMerge ==
    [][(localHead # NoRepo /\ lastPull' = "Panic") => records' = records]_vars

\* a field that is there and not the empty string
Present(field) == field # None /\ field # Some("")
\* the download list holds the pair of these two fields
Emitted(list, url, hash) ==
    /\ url # None /\ hash # None
    /\ \E i \in 1..Len(list) : list[i] = <<url[1], hash[1]>>

\* C12: parse_channel_file emits the task of a target's xz pair, respectively
\* of its plain pair, if and only if the target is available and both fields
\* of the pair are present and non-empty; no emitted task has an empty url or
\* an empty hash.
C12_TaskIffAvailableAndPresent ==
    out # <<>> =>
        LET target == arg[1]
            list == out[1]
        IN /\ Emitted(list, target.xz_url, target.xz_hash)
                <=> (target.available /\ Present(target.xz_url)
                        /\ Present(target.xz_hash))
           /\ Emitted(list, target.url, target.hash)
                <=> (target.available /\ Present(target.url) /\ Present(target.hash))
           /\ \A i \in 1..Len(list) : list[i][1] # "" /\ list[i][2] # ""


\* a component task has been submitted to the pool / has terminated
TaskSubmitted(c) == cpc[c] # "none"
TaskTerminated(c) == cpc[c] \in {"done", "panicked"}

\* C13: in sync_channel a component task is submitted only when
\* download_file_with_sha has returned the manifest download to sync_channel,
\* and the upload of the manifest and of its sidecar starts only when every
\* submitted task has terminated, by returning or by a panic
C13_ManifestThenTasksThenUpload ==
    /\ \A c \in Components :
          TaskSubmitted(c) => mret \in {"OkTrue", "OkFalse"} /\ chan # "sha" /\ chan # "toml"
    /\ (chan = "joined" \/ mupl # <<>>) =>
          \A c \in Components : TaskSubmitted(c) => TaskTerminated(c)

\* the manifest is uploaded after one task has panicked and the other returned
C13_Witness ==
    /\ mupl # <<>>
    /\ cpc["rustc"] = "panicked"
    /\ cpc["cargo"] = "done"
    /\ mget # <<>>


\* the calendar days of the years the runs of the model lie in
CalendarDays ==
    {d \in (2023..2024) \X (1..12) \X (1..31) : IsDate(d)}
\* the channels a finished call has listed
Listed == {out[1][i] : i \in 1..Len(out[1])}

\* C14: in history mode (no version, history flag, a start date) the run
\* syncs beta-<d> and nightly-<d> for exactly the days d with
\* start <= d <= today, and no channel without a date
C14_HistoryCoversStartToToday ==
    (out # <<>> /\ arg[1].version = None /\ arg[1].sync_history /\ arg[1].start # None) =>
        Listed = {Dated(tag, d) : tag \in {"beta", "nightly"},
                     d \in {x \in CalendarDays :
                              /\ num_days_from_ce(arg[1].start[1]) <= num_days_from_ce(x)
                              /\ num_days_from_ce(x) <= num_days_from_ce(arg[1].now)}}


\* the days from the date a directory is named after to the day of the pass
AgeInDays(name, now) == num_days_from_ce(now) - num_days_from_ce(name)

\* between the trees before and after, a pass for tag T with threshold N has
\* deleted the files named in the claim and nothing else
PassDeletesExactly(before, after, T, N, now) ==
    \A name \in DOMAIN before :
        /\ before[name] = PlainFile => after[name] = PlainFile
        /\ FilesOf(after[name]) \subseteq FilesOf(before[name])
        /\ \A f \in FilesOf(before[name]) :
              f \notin FilesOf(after[name])
                  <=> (contains(f, T) /\ ParsesAsDate(name) /\ AgeInDays(name, now) > N)

\* C15: a retention pass for tag T with threshold N deletes exactly the files
\* whose name contains T in the directories directly below dist whose name
\* parses as a date more than N days before today; it deletes no file of a
\* younger or undated directory, no file without T, and no file of the root
C15_PassDeletesTaggedFilesOfOldDirs ==
    out # <<>> =>
        /\ PassDeletesExactly(arg[1], out[1], "beta", arg[2], arg[4])
        /\ PassDeletesExactly(out[1], out[2], "nightly", arg[3], arg[4])

\* with 29 days the nightly pass empties the tagged files of 2024-01-01 and
\* keeps those of 2024-02-01, which is 29 days old, next to an untagged file
C15_Witness ==
    /\ out # <<>>
    /\ arg[3] = 29
    /\ <<"rust", "nightly", "x86_64", "tar", "xz">> \in FilesOf(arg[1][<<2024, 1, 1>>])
    /\ <<"rust", "1.70.0", "x86_64", "tar", "xz">> \in FilesOf(arg[1][<<2024, 1, 1>>])
    /\ FilesOf(out[2][<<2024, 1, 1>>]) = {<<"rust", "1.70.0", "x86_64", "tar", "xz">>}
    /\ <<"rust", "nightly", "x86_64", "tar", "xz">> \in FilesOf(out[2][<<2024, 2, 1>>])
    /\ <<"rust", "nightly", "x86_64", "tar", "xz">> \in FilesOf(out[2][<<2024, 2, 30>>])


\* the directory of scenario S4: a nightly manifest and a nightly archive
S4Dir ==
    Dir({<<"channel", "rust", "nightly", "toml">>, <<"rust", "nightly", "x86_64", "tar", "xz">>})
S4 ==
    /\ out # <<>>
    /\ arg[3] = 30
    /\ arg[4] = <<2024, 3, 1>>
    /\ arg[1][<<2024, 1, 1>>] = S4Dir
    /\ arg[1][<<2024, 2, 1>>] = S4Dir

\* between the trees before and after a pass, the directories that are gone
\* are the old dated ones in which the pass left nothing
PassRemovesEmptied(before, after, T, N, now) ==
    \A name \in DOMAIN before :
        (before[name] # NoEntry /\ after[name] = NoEntry)
            <=> /\ is_dir(before[name])
                /\ ParsesAsDate(name)
                /\ AgeInDays(name, now) > N
                /\ \A f \in FilesOf(before[name]) : contains(f, T)

\* C16, as stated: with sync_nightly_days = 30 on 2024-03-01 the clean step
\* removes the nightly files of dist/2024-01-01 and of dist/2024-02-01 and
\* both directories
C16_BothDirectoriesRemoved ==
    S4 => out[2][<<2024, 1, 1>>] = NoEntry /\ out[2][<<2024, 2, 1>>] = NoEntry

\* C16: with sync_nightly_days = 30 on 2024-03-01 the clean step removes the
\* nightly files of dist/2024-01-01, 60 days old, and the directory, then
\* empty; dist/2024-02-01, 29 days old, keeps its files; and a pass removes a
\* dated directory exactly when it is older than the threshold and the pass
\* leaves it empty
C16_OnlyOlderThanThirtyDaysRemoved ==
    /\ S4 => out[2][<<2024, 1, 1>>] = NoEntry /\ out[2][<<2024, 2, 1>>] = S4Dir
    /\ out # <<>> =>
          /\ PassRemovesEmptied(arg[1], out[1], "beta", arg[2], arg[4])
          /\ PassRemovesEmptied(out[1], out[2], "nightly", arg[3], arg[4])

\* scenario S4 after the clean step, with the nightly manifest of the root kept
C16_Witness ==
    /\ S4
    /\ arg[1][<<"channel", "rust", "nightly", "toml">>] = PlainFile
    /\ out[2][<<2024, 1, 1>>] = NoEntry


\* the sidecar GET of the running download_file_with_sha got no 2xx answer
SidecarFailed == mget # <<>> /\ mget[1][2] \in {RespStatus, RespTransport}

\* the GET of the primary file follows a sidecar GET that was answered with a
\* body, and its expected hash is the first 64 characters of that body
PrimaryAfterSidecar ==
    \A i \in 1..Len(mget) :
        mget[i][1] = "toml" =>
            /\ i > 1
            /\ mget[i - 1][1] = "sha256"
            /\ mget[i - 1][2][1] = "body"
            /\ mget[i][3] = Prefix64(mget[i - 1][2][2])

\* C17: download_file_with_sha issues the GET of the primary file only after
\* the sidecar has been fetched, with the first 64 characters of the sidecar
\* as expected hash; if the sidecar fetch fails, by a non-2xx status or by a
\* transport error, no GET of the primary is issued and the function returns
\* Ok(false), without an error and without a panic
C17_SidecarFirstAndFailureSkips ==
    /\ PrimaryAfterSidecar
    /\ SidecarFailed => Len(mget) = 1 /\ mret = "OkFalse"


\* C18: when the manifest sync_channel is about to parse is not TOML of the
\* manifest schema, sync_channel skips the channel and returns normally:
\* sync_rust_toolchain keeps running and goes on with the channels that remain
C18_InvalidManifestSkipsChannel ==
    [][(chan = "returned" /\ toml[Head(queue)] = BadToml)
          => (sync' = "running" /\ chan' = "idle" /\ queue' = Tail(queue))]_vars


\* the reply of the first origin of the list that holds the file: 200 from
\* the local disk, 302 to a remote origin, 404 when no origin holds it
RECURSIVE FirstHolderReply(_, _, _)
FirstHolderReply(serve_domains, file_path, held) ==
    IF serve_domains = <<>> THEN NotFound404
    ELSE IF file_path \in held[Head(serve_domains)]
    THEN IF Head(serve_domains) = "localhost" THEN Ok200(file_path)
         ELSE Found302(Head(serve_domains), file_path)
    ELSE FirstHolderReply(Tail(serve_domains), file_path, held)

\* C19: return_files walks serve_domains in order and answers from the first
\* origin that holds the file, the local disk for "localhost" and a 302 to a
\* remote domain that has it; an origin without the file is skipped, and the
\* reply is 404 when no origin holds the file
C19_FirstOriginWithFileAnswers ==
    out # <<>> => out[1].reply = FirstHolderReply(arg[2], out[1].file_path, arg[3])

\* C20: GET /crates/<name>/<name>-<version>.crate resolves to the path
\* crates/<name>/<name>-<version>.crate, the one GET
\* /crates/<name>/<version>/download resolves to, for every name and version
C20_BothRoutesSamePath ==
    out # <<>> =>
        \A v \in ServedVersions :
            LET name == arg[1].name
                download == [route |-> "crates_1", name |-> name, version |-> v]
            IN /\ crates_file_path(download) = CratePath(name, CrateFile(name, v))
               /\ (arg[1].route = "crates_2" /\ arg[1].file = CrateFile(name, v))
                     => out[1].file_path = crates_file_path(download)


\* the lines of an index file for a crate version
LinesOf(file, k) ==
    {i \in 1..Len(file[2]) :
        /\ file[2][i] # NlChunk
        /\ file[2][i][2] = k[1]
        /\ file[2][i][3] = k[2]}

\* C21: after a publish request with a well-formed body is answered with 200,
\* the index file of the crate holds a line for (name, vers) whose cksum is
\* the hex SHA-256 of the posted bytes, and crates/<name>/<name>-<vers>.crate
\* holds exactly the posted bytes
C21_PublishStoresLineAndBytes ==
    (reply # <<>> /\ reply[1].kind = "200") =>
        LET k == reply[1].body.key
        IN /\ idx[k[1]][1] = "file"
           /\ \E i \in LinesOf(idx[k[1]], k) :
                  idx[k[1]][2][i][4] = Sha256(reply[1].body.content)
           /\ disk[k] = reply[1].body.content

\* a second version of a crate the index already held was published
C21_Witness ==
    /\ reply # <<>> /\ reply[1].kind = "200"
    /\ reply[1].body.key = <<"serde", "0.2.0">>
    /\ reply[1].body.content = Archive(<<"serde", "0.2.0">>)
    /\ disk[<<"serde", "0.1.0">>] = Junk
    /\ Cardinality(published) = 2


\* C30: after any sequence of publishes answered with 200, the index file of
\* a crate holds exactly one line for each published version of the crate,
\* and each of its lines is followed by a newline: publishing a second
\* version does not remove the line of the first
C30_PublishKeepsEarlierLines ==
    \A k \in published :
        LET file == idx[k[1]]
        IN /\ Cardinality(LinesOf(file, k)) = 1
           /\ \A i \in 1..Len(file[2]) :
                 file[2][i] # NlChunk => (i < Len(file[2]) /\ file[2][i + 1] = NlChunk)


PercentEncoded(segment, encoded) ==
    /\ Len(encoded) = Len(segment)
    /\ \A i \in 1..Len(segment) :
          encoded[i] = IF segment[i] = "+" THEN "%2B"
                       ELSE IF segment[i] = "%" THEN "%25" ELSE segment[i]

\* C23: encode_huaweicloud_url percent-encodes the final path segment exactly
\* when the host contains myhuaweicloud.com and the path starts with /crates,
\* leaving the host and the other segments as they were; every other URL is
\* returned unchanged.
C23_EncodesLastSegmentOfHuaweiCrates ==
    out # <<>> =>
        LET url == arg[1]
            res == out[1]
            n == Len(url.path)
        IN IF (\E i \in 1..Len(url.host.name) : url.host.name[i] = "myhuaweicloud.com")
               /\ n > 0 /\ url.path[1][1] = "crates"
           THEN /\ res.host = url.host
                /\ Len(res.path) = n
                /\ \A i \in 1..(n - 1) : res.path[i] = url.path[i]
                /\ PercentEncoded(url.path[n], res.path[n])
           ELSE res = url

C23_Witness ==
    /\ out # <<>>
    /\ arg[1].path = <<<<"crates">>, <<"serde">>, <<"serde", "-", "1.0.0", "+", "2014", ".crate">>>>
    /\ out[1].path = <<<<"crates">>, <<"serde">>, <<"serde", "-", "1.0.0", "%2B", "2014", ".crate">>>>
    /\ out[1].host = arg[1].host


\* C24: the process exits with code 0 only when the executed command
\* succeeded; whenever the command returns an error, the unknown-command
\* error included, the exit code is non-zero.
C24_ExitZeroOnlyOnSuccess ==
    out # <<>> =>
        /\ out[1] = 0 => (arg[1] \in BuiltinCommands /\ arg[2] = RetOk)
        /\ (arg[1] \notin BuiltinCommands \/ arg[2][1] = "err") => out[1] # 0


\* an entry whose name does not start with a dot
NonHidden(e) == e[1] # "."

\* C25: pull clones when the index directory is missing, deletes it and
\* clones when it is present without any non-hidden entry, and fetches and
\* merges when it holds at least one non-hidden entry; no other directory
\* state leads to deleting the index.
C25_PullChoosesByDirectoryState ==
    out # <<>> =>
        LET d == arg[1]
        IN /\ d[1] = "absent" => out[1] = "git_clone"
           /\ (d[1] = "dir" /\ ~(\E e \in d[2] : NonHidden(e)))
                 => out[1] = "remove_dir_all, git_clone"
           /\ (d[1] = "dir" /\ (\E e \in d[2] : NonHidden(e))) => out[1] = "git_pull"


\* the crate names the records of a journal name
NamesIn(j) == {j[i][2] : i \in {p \in 1..Len(j) : j[p][1] = "json"}}

\* once the pass has stopped reading, every name in the journal was visited
\* and every line of a visited name has a task
EveryJournalNameProcessed ==
    (run.mode = "Fix" /\ run.name = NoName /\ run.phase = "join") =>
        /\ NamesIn(journal) \subseteq visited
        /\ \A n \in visited : \A k \in IndexLines(Index, n) : pc[k] # "none"

\* a step of the pass that submits a task of crate n is the first visit of n
\* and submits all lines of n
SubmitsOnFirstVisit ==
    (run.mode = "Fix" /\ run.name = NoName) =>
        \A k \in Keys :
            (pc'[k] = "ready" /\ pc[k] # "ready") =>
                /\ k[1] \notin visited
                /\ k[1] \in visited'
                /\ \A l \in IndexLines(Index, k[1]) : pc'[l] = "ready"

\* a visited name stays visited while the pass runs
StaysVisited == (run.mode = "Fix" /\ run'.mode = "Fix") => visited \subseteq visited'

\* C26: in a repair pass without crate name each distinct crate name in the
\* error journal has its index file processed exactly once, however many
\* records name it, and every version line of that index file is submitted;
\* this also holds, and the pass terminates, when failing workers append
\* records while the pass reads the journal.
C26_RepairVisitsEachNameOnce ==
    /\ []EveryJournalNameProcessed
    /\ [][SubmitsOnFirstVisit /\ StaysVisited]_vars
    /\ (run.mode = "Fix" /\ run.name = NoName /\ run.phase = "body") ~> (run.phase = "finished")

\* the pass has read a record that a failing worker appended during the pass,
\* after a journal of two records naming the same crate
C26_Witness ==
    /\ run.mode = "Fix" /\ run.name = NoName /\ run.phase = "join"
    /\ ~bodyPanic
    /\ jlen0 = 4 /\ journal[1][2] = journal[3][2]
    /\ Len(journal) > jlen0 /\ rdpos > jlen0
    /\ \E k \in Keys : pc[k] = "panicked"

\* C27: the channel manifest and its .sha256 sidecar are uploaded only after
\* all component files of the channel were handled successfully: when a
\* component task of the channel has panicked, or its upload has failed, no
\* upload of the manifest or of the sidecar is made in that run.
C27_NoManifestUploadAfterFailedTask ==
    mupl # <<>> =>
        \A c \in Components : cpc[c] # "panicked" /\ cupl[c] # "failed"

\* C28: no index change is skipped by incremental sync: an Increment
\* download that follows successful pulls submits a task for every version
\* line of every crate changed between the two commits of any record of the
\* day, the records before the last one included.
C28_IncrementCoversEveryRecord ==
    (/\ run.mode = "Increment" /\ run.phase = "join"
     /\ lastPull = "Ok" /\ worktree = localHead)
        => \A i \in 1..Len(records[today]) :
              \A n \in ChangedCrates(records[today][i][1], records[today][i][2]) :
                  IndexLines(Index, n) \subseteq Submitted

\* the task of k found the file on disk with the expected hash: no GET
Skipped(k) == ret[k] = "OkFalse" /\ resp[k] = NoResp
\* the GET of the task of k ended in a non-2xx status or in a transport error
Failed(k) == ret[k] = "Err" \/ (ret[k] = "OkFalse" /\ resp[k] # NoResp)

====
